---------------------------- MODULE Spec2Model ----------------------------
(***************************************************************************)
(* A model of borgwarner_scraper.py: the robots.txt gate, the paginated    *)
(* listing walk of main(), the per-block extraction and article fetch of   *)
(* get_press_release_contents(), the check-then-add of                     *)
(* store_in_vector_db(), the JSON snapshot and the query loop.  The web    *)
(* site, the failures of the vector store and the file system are the      *)
(* environment: every response is drawn from a bounded set.  The Chroma    *)
(* collection lives in ./chroma_db and survives from one run of the script *)
(* to the next.                                                            *)
(***************************************************************************)
EXTENDS Integers, Sequences, FiniteSets, Bags, TLC

(* ------------------------------ bounds -------------------------------- *)

\* Listing pages of a short site (the pages after them are empty).
NPages == 1
\* Article blocks on one listing page.
MaxCards == 2
\* Runs of the script against the same chroma_db directory.
MaxRuns == 2

(* ------------------------- program constants -------------------------- *)

max_page == 10

top_k == 5

BASE_URL == "https://www.borgwarner.com"

\* Python's None and False.
None == "None"
False == "False"

(* --------------------------- the web site ----------------------------- *)

\* An article block of a listing page: the text of its
\* h2.bw-global-list-h3 element, the text of its div.h5.margin-bottom-0
\* element and the href of its anchor (None: the element is missing).
Block(t, d, h) == [title_tag |-> t, date_tag |-> d, href |-> h]

\* The blocks a short site serves: two blocks for /a that differ in title
\* and date, one for /b, one without a link, one without a title.
SiteCards ==
    {Block("X", "2024-01-01", "/a"), Block("Y", None, "/a"),
     Block("X", "2024-01-01", "/b"), Block("X", "2024-01-01", None),
     Block(None, "2024-01-01", "/a")}

\* The one block of every page of a long site.
FillerCard == Block("X", "2024-01-01", "/a")

\* What a GET of an article page gives: an exception (transport or HTTP
\* status), a page without the sfnewsContent container, a container with
\* no text, or a container with text.
ArticleResponses == {"error", "no_container", "", "hello world", "goodbye"}

\* Outcomes of one GET of robots.txt.
RobotsOutcomes ==
    {"ok_allow", "ok_disallow", "ssl_error", "http_404", "http_500",
     "timeout", "dns_error", "parse_error"}

\* A listing page as the site holds it.
Page(ok, cards) == [ok |-> ok, cards |-> cards]

\* The kinds of site.  A short site answers every request as it pleases
\* within the bounds; a long site has a filler block on every page; a fixed
\* site answers the same request the same way every time.
Site(kind, listing, tail, body, fails) ==
    [kind |-> kind, listing |-> listing, tail |-> tail, body |-> body,
     fails |-> fails]

ShortSite == Site("short", <<>>, "empty", <<>>, {})
LongSite == Site("long", <<>>, "filler", <<>>, {})

(* ------------------------------ state --------------------------------- *)

VARIABLES
    pc,            \* where the script is
    run,           \* which run of the script this is
    site,          \* the web site of this run
    allowed,       \* what is_scraping_allowed() returned ("unknown" before)
    robots_verify, \* history: verify= of each robots.txt request of the run
    robots_last,   \* history: outcome of the last robots.txt request
    current_page,  \* main: current_page
    n_blocks,      \* get_press_release_contents: len(press_releases)
    i_block,       \* get_press_release_contents: blocks iterated so far
    contents,      \* get_press_release_contents: contents
    cur,           \* the block being processed, after extraction and fetch
    articles,      \* main: articles
    vector_db,     \* the Chroma collection (persistent), a bag of documents
    json_file,     \* borgwarner_press_releases.json
    fetched,       \* history: listing pages requested in this run
    art_got,       \* history: an article page was requested in this run
    added,         \* history: URLs add_documents stored in this run
    ret,           \* history: the store_in_vector_db call for the last block
                   \* (differs: the url was there with other fields)
    drained,       \* history: pages of this run that returned no contents
    saves,         \* history: snapshot writes attempted in this run
    db0,           \* history: the collection when this run started
    replayed,      \* history: this run repeats, on the same fixed site, a
                   \* run that went through main()
    writers,       \* two concurrent runs inside store_in_vector_db
    page_log,      \* history: what the blocks of the page in progress had
    pauses,        \* history: time.sleep calls that returned in this run
    verify_off,    \* history: a listing or article request of this run was
                   \* made with certificate verification off
    blocks,        \* the blocks of one parsed listing page (extraction only)
    extracted      \* the fields extracted from them, block by block

vars == <<pc, run, site, allowed, robots_verify, robots_last, current_page,
          n_blocks, i_block, contents, cur, articles, vector_db, json_file,
          fetched, art_got, added, ret, drained, saves, db0,
          replayed, writers, page_log, pauses, verify_off, blocks,
          extracted>>

NoCard == [publication_date |-> None, title |-> None,
           content_url |-> None, content |-> None]

\* store_in_vector_db has not been called for the current block.
NoCall == [did |-> "none", value |-> None, embedded |-> FALSE,
           differs |-> FALSE]

\* Nothing seen yet on the page in progress: no block with a url (linked),
\* none with article content (content), none newly stored (stored).
NoLog == [linked |-> FALSE, content |-> FALSE, stored |-> FALSE]

\* The two runs that share the collection when the script is started twice
\* at once; each is outside store_in_vector_db ("idle") or between its
\* lookup and its add ("checked") for the article art, after so many calls.
Writers == {"w1", "w2"}
NoWriters == [w \in Writers |-> [pc |-> "idle", art |-> NoCard, calls |-> 0]]

\* The JSON file: absent, left by an earlier run (the script never reads
\* it), or written by this run.
NoFile == [state |-> "absent", data |-> <<>>]

InitWith(s, db) ==
    /\ pc = "gate"
    /\ run = 1
    /\ site = s
    /\ allowed = "unknown"
    /\ robots_verify = <<>>
    /\ robots_last = "none"
    /\ current_page = 1
    /\ n_blocks = 0
    /\ i_block = 0
    /\ contents = <<>>
    /\ cur = NoCard
    /\ articles = <<>>
    /\ vector_db = db
    /\ json_file = NoFile
    /\ fetched = <<>>
    /\ art_got = FALSE
    /\ added = {}
    /\ ret = NoCall
    /\ drained = {}
    /\ saves = 0
    /\ db0 = db
    /\ replayed = FALSE
    /\ writers = NoWriters
    /\ page_log = NoLog
    /\ pauses = 0
    /\ verify_off = FALSE
    /\ blocks = <<>>
    /\ extracted = <<>>

Init == \E s \in {ShortSite, LongSite} : InitWith(s, EmptyBag)


(* ----------------------- what the site answers ------------------------ *)

Listing(ok, n) == [ok |-> ok, blocks |-> n]

\* A listing GET of page p: an exception, or a page with some blocks.
ListingResponses(s, p) ==
    CASE s.kind = "short" ->
           {Listing(FALSE, 0)} \cup
           {Listing(TRUE, n) : n \in 0..(IF p <= NPages THEN MaxCards ELSE 0)}
      [] s.kind = "long" ->
           {Listing(FALSE, 0), Listing(TRUE, 0), Listing(TRUE, 1)}
      [] OTHER ->
           IF p <= Len(s.listing)
           THEN {Listing(s.listing[p].ok, Len(s.listing[p].cards))}
           ELSE {Listing(TRUE, IF s.tail = "filler" THEN 1 ELSE 0)}

\* Block i of page p.
BlockChoices(s, p, i) ==
    CASE s.kind = "short" -> SiteCards
      [] s.kind = "long" -> {FillerCard}
      [] OTHER -> IF p <= Len(s.listing)
                  THEN {s.listing[p].cards[i]}
                  ELSE {FillerCard}

\* A GET of the article page at url (no request is made without a url).
ArticleChoices(s, url) ==
    CASE url = None -> {"error"}
      [] s.kind = "short" -> ArticleResponses
      [] s.kind = "long" -> {"error", "hello world"}
      [] OTHER -> {s.body[url]}

\* Whether embedding or adding a new document for url can succeed, and
\* whether it can raise.
AddCanSucceed(s, url) == s.kind = "fixed" => url \notin s.fails
AddCanRaise(s, url) == s.kind = "fixed" => url \in s.fails

(* ------------------------- is_scraping_allowed ------------------------ *)

\* rp.can_fetch("*", PRESS_RELEASES_URL) on the parsed policy.
can_fetch(o) == IF o = "ok_allow" THEN "allowed" ELSE "disallowed"

\* The first request, verify=True: an SSLError asks for the retry, an
\* HTTPError is allowed only when the status is 404, any other exception
\* is disallowed.
VerifiedResult(o) ==
    CASE o \in {"ok_allow", "ok_disallow"} -> can_fetch(o)
      [] o = "ssl_error" -> "retry"
      [] o = "http_404" -> "allowed"
      [] OTHER -> "disallowed"

\* The retry, verify=False: its handler is "except Exception", which
\* returns False for every failure, a 404 included.
UnverifiedResult(o) ==
    CASE o \in {"ok_allow", "ok_disallow"} -> can_fetch(o)
      [] OTHER -> "disallowed"

GateFirst(o) ==
    /\ pc = "gate"
    /\ robots_verify' = Append(robots_verify, TRUE)
    /\ robots_last' = o
    /\ LET r == VerifiedResult(o) IN
         IF r = "retry"
         THEN pc' = "retry" /\ allowed' = allowed
         ELSE pc' = "gated" /\ allowed' = r
    /\ UNCHANGED <<run, site, current_page, n_blocks, i_block, contents, cur,
                   articles, vector_db, json_file, fetched, art_got, added,
                   ret, drained, saves, db0, replayed, writers,
                   page_log, pauses, verify_off, blocks, extracted>>

GateRetry(o) ==
    /\ pc = "retry"
    /\ robots_verify' = Append(robots_verify, FALSE)
    /\ robots_last' = o
    /\ allowed' = UnverifiedResult(o)
    /\ pc' = "gated"
    /\ UNCHANGED <<run, site, current_page, n_blocks, i_block, contents, cur,
                   articles, vector_db, json_file, fetched, art_got, added,
                   ret, drained, saves, db0, replayed, writers,
                   page_log, pauses, verify_off, blocks, extracted>>

\* Mutant: main() is called whatever the gate said.
AlwaysProceed(result) == "loop"

\* The __main__ block: exit() when the gate says no, else open the session
\* and call main().
Proceed(result) == IF result = "allowed" THEN "loop" ELSE "exited"

MainBlock ==
    /\ pc = "gated"
    /\ pc' = Proceed(allowed)
    \* the outcome is kept only when the run stops here
    /\ robots_last' = IF pc' = "exited" THEN robots_last ELSE "none"
    /\ UNCHANGED <<run, site, allowed, robots_verify, current_page, n_blocks,
                   i_block, contents, cur, articles, vector_db, json_file,
                   fetched, art_got, added, ret, drained, saves,
                   db0, replayed, writers,
                   page_log, pauses, verify_off, blocks, extracted>>

\* Mutant: the session inherits verify from the last robots.txt request.
SessionVerifyFromGate ==
    robots_verify = <<>> \/ robots_verify[Len(robots_verify)]

\* verify of the requests made through session: requests.Session() is
\* created after the gate and its verify attribute is never set, and no
\* session.get passes verify=, so the default (True) applies.
SessionVerify == TRUE

(* --------------------------- extraction ------------------------------- *)

\* urljoin(BASE_URL, href) for a site-relative href.
urljoin(base, href) == base \o href

Urls == {urljoin(BASE_URL, "/a"), urljoin(BASE_URL, "/b")}

\* The title and the date come from their own elements; the anchor is
\* looked up inside the title element, so without it there is no a_tag.
ExtractTitle(card) == card.title_tag
ExtractDate(card) == card.date_tag
ExtractUrl(card) ==
    IF card.title_tag # None /\ card.href # None
    THEN urljoin(BASE_URL, card.href)
    ELSE None

\* parse_press_release_content: None on any exception and when the
\* container is missing, else the container's joined text.
BodyOf(resp) ==
    IF resp \in {"error", "no_container"} THEN None ELSE resp

\* Mutant: only the empty string is rejected, None slips through.
NotEmptyString(content) == content # ""

\* Python truthiness of a content value ("if content"): None and "" are
\* falsy.
Truthy(content) == content # None /\ content # ""

(* ------------------------- store_in_vector_db ------------------------- *)

\* Mutant: the lookup filters on the wrong metadata key (the title).
ExistingDocsByTitle(db, url) == {d \in BagToSet(db) : d.title = url}

\* vector_db.get(where={"url": content_url})["documents"]
ExistingDocs(db, url) == {d \in BagToSet(db) : d.url = url}

\* Mutant: the existence check never finds anything.
NeverExists(db, url) == FALSE

\* "if existing_docs['documents']"
AlreadyExists(db, url) == ExistingDocs(db, url) # {}

Doc(a) == [page_content |-> a.content, title |-> a.title,
           date |-> a.publication_date, url |-> a.content_url]

\* Mutant: the embedding is computed before the lookup.
StoreEmbedFirst(db, a) ==
    IF {d \in BagToSet(db) : d.url = a.content_url} # {}
    THEN [db |-> db, did |-> "skipped", value |-> None, embedded |-> TRUE]
    ELSE [db |-> db (+) SetToBag({[page_content |-> a.content,
                                   title |-> a.title,
                                   date |-> a.publication_date,
                                   url |-> a.content_url]}),
          did |-> "stored", value |-> None, embedded |-> TRUE]

\* Mutant: an existing document is replaced (an upsert keyed on the url).
StoreUpsert(db, a) ==
    LET old == {d \in BagToSet(db) : d.url = a.content_url}
        new == [page_content |-> a.content, title |-> a.title,
                date |-> a.publication_date, url |-> a.content_url]
        kept == [d \in (DOMAIN db) \ old |-> db[d]]
    IN [db |-> kept (+) SetToBag({new}),
        did |-> IF old # {} THEN "skipped" ELSE "stored",
        value |-> None, embedded |-> old = {}]

\* One call that returns: the collection afterwards, what the call did and
\* what it hands back ("return" and falling off the end both give None).
StoreInVectorDb(db, a) ==
    IF AlreadyExists(db, a.content_url)
    THEN [db |-> db, did |-> "skipped", value |-> None, embedded |-> FALSE]
    ELSE [db |-> db (+) SetToBag({Doc(a)}), did |-> "stored",
          value |-> None, embedded |-> TRUE]

\* Mutant: the in-page guard never finds the url.
NeverInContents(cs, url) == FALSE

\* The in-page guard and the append.
InContents(cs, url) == \E i \in 1..Len(cs) : cs[i].content_url = url

\* Mutant: the block is appended whether or not it has content.
AppendWithoutContent(cs, a) ==
    IF \E i \in 1..Len(cs) : cs[i].content_url = a.content_url
    THEN cs
    ELSE Append(cs, a)

AppendContents(cs, a) ==
    IF Truthy(a.content) /\ ~InContents(cs, a.content_url)
    THEN Append(cs, a)
    ELSE cs


(* --------------------- get_press_release_contents --------------------- *)

\* Mutant: the loop bound is off by one.
WhileCondOffByOne(p) == p <= max_page + 1

\* main's "while current_page <= max_page".
WhileCond(p) == p <= max_page

\* Request the listing page; an exception makes the function return [].
FetchListing(resp) ==
    /\ pc = "loop"
    /\ WhileCond(current_page)
    /\ fetched' = Append(fetched, current_page)
    /\ contents' = <<>>
    /\ i_block' = 0
    /\ IF ~resp.ok \/ resp.blocks = 0
       THEN n_blocks' = 0 /\ pc' = "return"
       ELSE n_blocks' = resp.blocks /\ pc' = "card"
    /\ page_log' = NoLog
    /\ verify_off' = (verify_off \/ ~SessionVerify)
    /\ UNCHANGED <<run, site, allowed, robots_verify, robots_last,
                   current_page, cur, articles, vector_db, json_file,
                   art_got, added, ret, drained, saves, db0,
                   replayed, writers,
                   pauses, blocks, extracted>>

\* The fields of the next block, then the article request when the block
\* gave a url.
ParseCard(card, resp) ==
    /\ pc = "card"
    /\ i_block < n_blocks
    /\ i_block' = i_block + 1
    /\ LET url == ExtractUrl(card) IN
         /\ cur' = [publication_date |-> ExtractDate(card),
                    title |-> ExtractTitle(card),
                    content_url |-> url,
                    content |-> IF url # None THEN BodyOf(resp) ELSE None]
         /\ art_got' = (art_got \/ url # None)
    /\ ret' = NoCall
    /\ pc' = "commit"
    /\ page_log' = [page_log EXCEPT !.linked = @ \/ ExtractUrl(card) # None]
    /\ verify_off' = (verify_off \/ (ExtractUrl(card) # None /\ ~SessionVerify))
    /\ UNCHANGED <<run, site, allowed, robots_verify, robots_last,
                   current_page, n_blocks, contents, articles, vector_db,
                   json_file, fetched, added, drained, saves, db0,
                   replayed, writers,
                   pauses, blocks, extracted>>

\* "if content: store_in_vector_db(...)", then the guarded append, when no
\* exception is raised.
CommitCard ==
    /\ pc = "commit"
    /\ IF Truthy(cur.content)
       THEN /\ AlreadyExists(vector_db, cur.content_url)
               \/ AddCanSucceed(site, cur.content_url)
            /\ LET call == StoreInVectorDb(vector_db, cur) IN
                 /\ vector_db' = call.db
                 /\ ret' = [did |-> call.did, value |-> call.value,
                            embedded |-> call.embedded,
                            differs |-> ExistingDocs(vector_db, cur.content_url)
                                           \notin {{}, {Doc(cur)}}]
                 /\ added' = IF call.did = "stored"
                             THEN added \cup {cur.content_url}
                             ELSE added
       ELSE /\ ret' = [did |-> "no_content", value |-> None,
                       embedded |-> FALSE, differs |-> FALSE]
            /\ UNCHANGED <<vector_db, added>>
    /\ contents' = AppendContents(contents, cur)
    /\ pc' = IF i_block = n_blocks THEN "return" ELSE "card"
    /\ cur' = NoCard
    /\ page_log' = [page_log EXCEPT !.content = @ \/ Truthy(cur.content),
                                    !.stored = @ \/ ret'.did = "stored"]
    /\ UNCHANGED <<run, site, allowed, robots_verify, robots_last,
                   current_page, n_blocks, i_block, articles, json_file,
                   fetched, art_got, drained, saves, db0,
                   replayed, writers,
                   pauses, verify_off, blocks, extracted>>

\* Mutant: the exception is swallowed around the store call and the block
\* is appended all the same.
CommitRaisesSwallowed ==
    /\ pc = "commit"
    /\ Truthy(cur.content)
    /\ ~AlreadyExists(vector_db, cur.content_url)
    /\ AddCanRaise(site, cur.content_url)
    /\ ret' = [did |-> "raised", value |-> None, embedded |-> TRUE,
               differs |-> FALSE]
    /\ contents' = AppendContents(contents, cur)
    /\ pc' = IF i_block = n_blocks THEN "return" ELSE "card"
    /\ cur' = NoCard
    /\ page_log' = [page_log EXCEPT !.content = TRUE]
    /\ UNCHANGED <<run, site, allowed, robots_verify, robots_last,
                   current_page, n_blocks, i_block, articles, vector_db,
                   json_file, fetched, art_got, added, drained, saves, db0,
                   replayed, writers,
                   pauses, verify_off, blocks, extracted>>

\* embed_query or add_documents raises for a new url: the handler of
\* get_press_release_contents returns [] in place of the page's contents.
\* (The lookup, a read of the local collection, is taken to succeed.)
CommitRaises ==
    /\ pc = "commit"
    /\ Truthy(cur.content)
    /\ ~AlreadyExists(vector_db, cur.content_url)
    /\ AddCanRaise(site, cur.content_url)
    /\ ret' = [did |-> "raised", value |-> None, embedded |-> TRUE,
               differs |-> FALSE]
    /\ contents' = <<>>
    /\ pc' = "return"
    /\ cur' = NoCard
    /\ page_log' = [page_log EXCEPT !.content = TRUE]
    /\ UNCHANGED <<run, site, allowed, robots_verify, robots_last,
                   current_page, n_blocks, i_block, articles, vector_db,
                   json_file, fetched, art_got, added, drained,
                   saves, db0, replayed, writers,
                   pauses, verify_off, blocks, extracted>>

(* ------------------------------- main --------------------------------- *)

\* Mutant: the break is missing.
NeverStop(cs) == FALSE

\* "if not contents: break"
StopWalk(cs) == cs = <<>>

\* Mutant: the loop goes round without the sleep.
PageDoneNoPause ==
    /\ pc = "return"
    /\ drained' = IF contents = <<>> THEN drained \cup {current_page}
                  ELSE drained
    /\ IF contents = <<>>
       THEN /\ pc' = "save"
            /\ UNCHANGED <<articles, current_page>>
       ELSE /\ articles' = articles \o contents
            /\ current_page' = current_page + 1
            /\ pc' = "loop"
    /\ ret' = NoCall
    /\ page_log' = NoLog
    /\ UNCHANGED <<run, site, allowed, robots_verify, robots_last, n_blocks,
                   i_block, contents, cur, vector_db, json_file, fetched,
                   art_got, added, saves, db0, replayed, writers,
                   pauses, verify_off, blocks, extracted>>

\* Stop on empty contents, else extend articles and advance the page.
PageDone ==
    /\ pc = "return"
    /\ drained' = IF contents = <<>> THEN drained \cup {current_page}
                  ELSE drained
    /\ IF StopWalk(contents)
       THEN /\ pc' = "save"
            /\ UNCHANGED <<articles, current_page>>
       ELSE /\ articles' = articles \o contents
            /\ current_page' = current_page + 1
            /\ pc' = "sleep"
    /\ ret' = NoCall
    /\ page_log' = NoLog
    /\ UNCHANGED <<run, site, allowed, robots_verify, robots_last, n_blocks,
                   i_block, contents, cur, vector_db, json_file, fetched,
                   art_got, added, saves, db0, replayed, writers,
                   pauses, verify_off, blocks, extracted>>

\* time.sleep(random.uniform(1, 3)) returns.
Sleep ==
    /\ pc = "sleep"
    /\ pc' = "loop"
    /\ pauses' = pauses + 1
    /\ UNCHANGED <<run, site, allowed, robots_verify, robots_last,
                   current_page, n_blocks, i_block, contents, cur, articles,
                   vector_db, json_file, fetched, art_got, added, ret,
                   drained, saves, db0, replayed, writers,
                   page_log, verify_off, blocks, extracted>>

\* The while condition fails.
LoopExit ==
    /\ pc = "loop"
    /\ ~WhileCond(current_page)
    /\ pc' = "save"
    /\ UNCHANGED <<run, site, allowed, robots_verify, robots_last,
                   current_page, n_blocks, i_block, contents, cur, articles,
                   vector_db, json_file, fetched, art_got, added, ret,
                   drained, saves, db0, replayed, writers,
                   page_log, pauses, verify_off, blocks, extracted>>

\* Mutant: no handler around the write, a failure ends the process.
SaveSnapshotUncaught(ok) ==
    /\ pc = "save"
    /\ saves' = saves + 1
    /\ json_file' = IF ok THEN [state |-> "written", data |-> articles]
                    ELSE json_file
    /\ pc' = IF ok THEN "query" ELSE "exited"
    /\ UNCHANGED <<run, site, allowed, robots_verify, robots_last,
                   current_page, n_blocks, i_block, contents, cur, articles,
                   vector_db, fetched, art_got, added, ret, drained, db0,
                   replayed, writers,
                   page_log, pauses, verify_off, blocks, extracted>>

\* Write the snapshot; a failure (the file cannot be opened) is logged.
SaveSnapshot(ok) ==
    /\ pc = "save"
    /\ saves' = saves + 1
    /\ json_file' = IF ok THEN [state |-> "written", data |-> articles]
                    ELSE json_file
    /\ pc' = "query"
    /\ UNCHANGED <<run, site, allowed, robots_verify, robots_last,
                   current_page, n_blocks, i_block, contents, cur, articles,
                   vector_db, fetched, art_got, added, ret, drained, db0, replayed, writers,
                   page_log, pauses, verify_off, blocks, extracted>>

(* ----------------------------- query_cli ------------------------------ *)

Min(a, b) == IF a < b THEN a ELSE b

\* query_knowledge_base: the result lists it can return, the metadata of
\* min(k, size) documents (their order is the store's).
QueryKnowledgeBase(db, k) ==
    {[title |-> d.title, date |-> d.date, url |-> d.url] : d \in BagToSet(db)}

QueryInputs == {"exit", "", "hello"}

\* One line typed at the prompt: "exit" ends the loop, an empty line asks
\* again, anything else prints QueryKnowledgeBase(vector_db, top_k).  The
\* loop keeps nothing from one line to the next.
QueryCli(text) ==
    /\ pc = "query"
    /\ pc' = IF text = "exit" THEN "done" ELSE "query"
    /\ UNCHANGED <<run, site, allowed, robots_verify, robots_last,
                   current_page, n_blocks, i_block, contents, cur, articles,
                   vector_db, json_file, fetched, art_got, added, ret,
                   drained, saves, db0, replayed, writers,
                   page_log, pauses, verify_off, blocks, extracted>>

(* --------------------------- the next run ----------------------------- *)

\* The script is started again against site s: module state is fresh, the
\* chroma_db directory is as the last run left it.  The script never reads
\* the JSON file, so of an earlier snapshot only its presence is kept.
NewRun(s) ==
    /\ pc \in {"done", "exited"}
    /\ run < MaxRuns
    /\ run' = run + 1
    /\ site' = s
    /\ pc' = "gate"
    /\ allowed' = "unknown"
    /\ robots_verify' = <<>>
    /\ robots_last' = "none"
    /\ current_page' = 1
    /\ n_blocks' = 0
    /\ i_block' = 0
    /\ contents' = <<>>
    /\ cur' = NoCard
    /\ articles' = <<>>
    /\ json_file' = IF json_file.state = "absent" THEN json_file
                    ELSE [state |-> "stale", data |-> <<>>]
    /\ fetched' = <<>>
    /\ art_got' = FALSE
    /\ added' = {}
    /\ ret' = NoCall
    /\ drained' = {}
    /\ saves' = 0
    /\ db0' = vector_db
    /\ replayed' = (pc = "done" /\ s.kind = "fixed" /\ s = site)
    /\ page_log' = NoLog
    /\ pauses' = 0
    /\ verify_off' = FALSE
    /\ UNCHANGED <<vector_db, writers, blocks, extracted>>

Step ==
    \/ \E o \in RobotsOutcomes : GateFirst(o)
    \/ \E o \in RobotsOutcomes : GateRetry(o)
    \/ MainBlock
    \/ \E resp \in ListingResponses(site, current_page) : FetchListing(resp)
    \/ /\ pc = "card"
       /\ \E card \in BlockChoices(site, current_page, i_block + 1) :
            \E resp \in ArticleChoices(site, ExtractUrl(card)) :
               ParseCard(card, resp)
    \/ CommitCard
    \/ CommitRaises
    \/ PageDone
    \/ Sleep
    \/ LoopExit
    \/ \E ok \in BOOLEAN : SaveSnapshot(ok)
    \/ \E text \in QueryInputs : QueryCli(text)

Next ==
    \/ Step
    \/ \E s \in {ShortSite, LongSite} : NewRun(s)

Spec == Init /\ [][Next]_vars


(* ------------------- runs repeated on a fixed site -------------------- *)

\* The pages a fixed site can have as its first page: a failing request,
\* or up to MaxCards blocks.
FixedPages ==
    {Page(FALSE, <<>>)} \cup
    {Page(TRUE, cs) : cs \in UNION {[1..n -> SiteCards] : n \in 0..MaxCards}}

\* A fixed site: its first page, then empty pages or filler pages; one
\* answer for each article url; the urls whose embedding or add raises.
FixedSites ==
    {Site("fixed", <<pg>>, tail, body, fails) :
        pg \in FixedPages, tail \in {"empty", "filler"},
        body \in [Urls -> {"error", "hello world"}],
        fails \in {{}} \cup {{u} : u \in Urls}}

\* A document an earlier version of the site left in the collection.
OldDoc == [page_content |-> "goodbye", title |-> "Y", date |-> None,
           url |-> urljoin(BASE_URL, "/a")]

InitFixed ==
    \E s \in FixedSites, db \in {EmptyBag, SetToBag({OldDoc})} :
        InitWith(s, db)

NextFixed ==
    \/ Step
    \/ NewRun(site)

SpecFixed == InitFixed /\ [][NextFixed]_vars


\* One run of the script, from an empty collection or from one an earlier
\* run filled.  The program's steps are blocking calls that return (every
\* request has a 10 second timeout), so a run that can take a step takes
\* one.
InitWalk ==
    \E s \in {ShortSite, LongSite}, db \in {EmptyBag, SetToBag({OldDoc})} :
        InitWith(s, db)

FairSpec == InitWalk /\ [][Step]_vars /\ WF_vars(Step)

(* ------------- two runs inside store_in_vector_db at once ------------- *)

\* store_in_vector_db is a lookup (vector_db.get) followed by a write
\* (add_documents) with nothing held between them.  Two runs of the script
\* over the same chroma_db directory interleave at the two collection calls.

\* The articles either run can hand to store_in_vector_db: a block of the
\* listing that has a url, with a body that has content.
RaceArticles ==
    {[publication_date |-> ExtractDate(b), title |-> ExtractTitle(b),
      content_url |-> ExtractUrl(b), content |-> c] :
        b \in {x \in SiteCards : ExtractUrl(x) # None},
        c \in {"hello world", "goodbye"}}

\* Mutant: the write looks the url up again (a conditional insert).
AddIfAbsent(db, a) ==
    IF {d \in BagToSet(db) : d.url = a.content_url} # {}
    THEN db
    ELSE db (+) SetToBag({[page_content |-> a.content, title |-> a.title,
                           date |-> a.publication_date,
                           url |-> a.content_url]})

\* vector_db.add_documents([doc]).
AddDocuments(db, a) == db (+) SetToBag({Doc(a)})

\* The number of entries the collection holds for a url.
EntriesFor(db, url) ==
    BagCardinality([d \in ExistingDocs(db, url) |-> db[d]])

\* Writer w calls store_in_vector_db(a) and does the lookup: a hit returns at
\* once, a miss leaves w before its add_documents.
WriterCheck(w, a) ==
    /\ writers[w].pc = "idle"
    /\ writers[w].calls < MaxCards
    /\ writers' = [writers EXCEPT ![w] =
                     IF AlreadyExists(vector_db, a.content_url)
                     THEN [pc |-> "idle", art |-> NoCard,
                           calls |-> @.calls + 1]
                     ELSE [pc |-> "checked", art |-> a, calls |-> @.calls]]
    /\ UNCHANGED <<pc, run, site, allowed, robots_verify, robots_last,
                   current_page, n_blocks, i_block, contents, cur, articles,
                   vector_db, json_file, fetched, art_got, added, ret,
                   drained, saves, db0, replayed,
                   page_log, pauses, verify_off, blocks, extracted>>

\* Writer w, past a lookup that found nothing, adds its document.
WriterAdd(w) ==
    /\ writers[w].pc = "checked"
    /\ vector_db' = AddDocuments(vector_db, writers[w].art)
    /\ writers' = [writers EXCEPT ![w] =
                     [pc |-> "idle", art |-> NoCard, calls |-> @.calls + 1]]
    /\ UNCHANGED <<pc, run, site, allowed, robots_verify, robots_last,
                   current_page, n_blocks, i_block, contents, cur, articles,
                   json_file, fetched, art_got, added, ret, drained, saves,
                   db0, replayed, page_log, pauses, verify_off,
                   blocks, extracted>>

InitRace == InitWith(ShortSite, EmptyBag)

NextRace ==
    \/ \E w \in Writers, a \in RaceArticles : WriterCheck(w, a)
    \/ \E w \in Writers : WriterAdd(w)

SpecRace == InitRace /\ [][NextRace]_vars

(* ---------------- the extraction loop, block by block ----------------- *)

\* Every combination of present and absent title element, date element and
\* anchor href in one article block.
AllBlocks ==
    {Block(t, d, h) : t \in {None, "X", "Y"}, d \in {None, "2024-01-01"},
                      h \in {None, "/a", "/b"}}

\* soup.select("div.column.widget-block") of a parsed listing page.
SelectBlocks(bs) ==
    /\ blocks = <<>>
    /\ bs # <<>>
    /\ blocks' = bs
    /\ UNCHANGED <<pc, run, site, allowed, robots_verify, robots_last,
                   current_page, n_blocks, i_block, contents, cur, articles,
                   vector_db, json_file, fetched, art_got, added, ret,
                   drained, saves, db0, replayed, writers, page_log, pauses,
                   verify_off, extracted>>

\* One turn of "for article in press_releases", up to content_url.
ExtractBlock ==
    /\ Len(extracted) < Len(blocks)
    /\ LET article == blocks[Len(extracted) + 1] IN
         extracted' = Append(extracted,
                             [title |-> ExtractTitle(article),
                              publication_date |-> ExtractDate(article),
                              content_url |-> ExtractUrl(article)])
    /\ UNCHANGED <<pc, run, site, allowed, robots_verify, robots_last,
                   current_page, n_blocks, i_block, contents, cur, articles,
                   vector_db, json_file, fetched, art_got, added, ret,
                   drained, saves, db0, replayed, writers, page_log, pauses,
                   verify_off, blocks>>

InitExtract == InitWith(ShortSite, EmptyBag)

NextExtract ==
    \/ \E n \in 1..MaxCards : \E bs \in [1..n -> AllBlocks] : SelectBlocks(bs)
    \/ ExtractBlock

SpecExtract == InitExtract /\ [][NextExtract]_vars

(* ------------------------------ claims -------------------------------- *)

\* The articles of the page in progress, of the run so far and of the
\* snapshot this run wrote.
Entries == contents \o articles \o json_file.data

\* C1: on a fixed site, a run that repeats a run which went through main()
\* leaves the collection exactly as it found it: the second run adds
\* nothing.
IdempotentRerun == replayed => vector_db = db0

\* C1 witness: a repeated run that fetched articles, found both urls stored
\* and finished.
RerunFinished ==
    /\ replayed
    /\ pc = "done"
    /\ art_got
    /\ BagCardinality(vector_db) = 2
    /\ json_file.state = "written" /\ json_file.data # <<>>

\* C2: the collection never holds two documents with the same url.
UrlUnique ==
    \A d \in BagToSet(vector_db) :
        /\ CopiesIn(d, vector_db) = 1
        /\ \A e \in BagToSet(vector_db) : e.url = d.url => e = d

\* C2 witness: in a later run a block arrives whose url is already stored
\* with other fields, next to a second stored url.
UrlSeenAgain ==
    /\ run > 1
    /\ ret.did = "skipped" /\ ret.differs
    /\ BagCardinality(vector_db) = 2

\* C3 (as amended): a call of store_in_vector_db for a url that is already
\* stored computes no embedding, writes nothing and leaves the collection
\* unchanged; it hands back None, as it does when it stores.
DedupShortCircuit ==
    [][(pc = "commit" /\ Truthy(cur.content)
          /\ AlreadyExists(vector_db, cur.content_url))
        => (/\ vector_db' = vector_db
            /\ ret'.did = "skipped"
            /\ ~ret'.embedded
            /\ ret'.value = None)]_vars

\* C3 as stated: the same call returns false.
DedupReturnsFalse ==
    [][(pc = "commit" /\ Truthy(cur.content)
          /\ AlreadyExists(vector_db, cur.content_url))
        => (/\ vector_db' = vector_db
            /\ ret'.did = "skipped"
            /\ ~ret'.embedded
            /\ ret'.value = False)]_vars

\* C3 witness: the call was made for a stored url and skipped.
DedupSkipped == ret.did = "skipped" /\ ~ret.embedded /\ pc = "card"

\* C4 as stated: when is_scraping_allowed returns, a 404 on the last
\* robots.txt request (the first or the retry) gave allowed, any other
\* failure gave disallowed.
FailClosedGate ==
    pc = "gated" =>
        /\ robots_last = "http_404" => allowed = "allowed"
        /\ robots_last \in {"ssl_error", "http_500", "timeout", "dns_error",
                            "parse_error"} => allowed = "disallowed"

\* C5: while the gate's answer is disallowed the run fetches nothing,
\* stores nothing, writes no snapshot and never reaches the query loop; and
\* every listing or article request is made under an answer of allowed.
GateBeforeIngestion ==
    /\ allowed = "disallowed" =>
          /\ pc \in {"gated", "exited"}
          /\ fetched = <<>> /\ ~art_got
          /\ added = {} /\ vector_db = db0
          /\ saves = 0 /\ json_file.state # "written"
    /\ (fetched # <<>> \/ art_got) => allowed = "allowed"

\* C5 witness: a later run is refused and exits with the collection intact.
RefusedRun ==
    /\ pc = "exited" /\ allowed = "disallowed"
    /\ run > 1 /\ vector_db # EmptyBag

\* C6: once a page k returned no contents, no page above k was or is
\* requested in the run.
StopOnEmptyPage ==
    \A k \in drained : \A i \in 1..Len(fetched) : fetched[i] <= k

\* C6 witness: page 3 returned nothing and the run ended after three
\* listing requests, far below max_page.
StoppedAtPageThree == 3 \in drained /\ pc = "done" /\ Len(fetched) = 3

\* C7: the cursor is in 1..max_page whenever a page is being fetched or
\* processed, the pages requested are 1, 2, 3, ... without gap or repeat,
\* at most max_page of them, and the walk always ends (the snapshot step is
\* reached).
WalkPcs == {"card", "commit", "return", "sleep"}

WalkSafe ==
    /\ pc \in WalkPcs \ {"sleep"} => current_page \in 1..max_page
    /\ pc = "loop" => current_page \in 1..(max_page + 1)
    /\ Len(fetched) <= max_page
    /\ \A i \in 1..Len(fetched) : fetched[i] = i

WalkTerminates ==
    /\ []WalkSafe
    /\ [](pc \in WalkPcs \cup {"loop"} => <>(pc = "save"))

\* C7 witness: the walk ended at the ceiling, after max_page requests.
CeilingReached ==
    pc = "save" /\ current_page = max_page + 1 /\ Len(fetched) = max_page

\* C8: no document of the collection and no entry of the page's contents,
\* of the run's articles or of the snapshot has an absent content; a block
\* without content causes no store call.
AbsentNeverStored ==
    /\ \A d \in BagToSet(vector_db) : d.page_content # None
    /\ \A i \in 1..Len(Entries) : Entries[i].content # None
    /\ ret.did = "no_content" => ~ret.embedded

\* C8 witness: a block without content was dropped after an article
\* request, on a page that already has an entry.
AbsentDropped ==
    /\ ret.did = "no_content" /\ art_got
    /\ contents # <<>> /\ vector_db # EmptyBag

\* C9: the documents stored under a url never change: no step alters,
\* removes or adds to them.
NoOverwrite ==
    [][\A u \in Urls :
         ExistingDocs(vector_db, u) # {} =>
            /\ ExistingDocs(vector_db', u) = ExistingDocs(vector_db, u)
            /\ \A d \in ExistingDocs(vector_db, u) :
                  CopiesIn(d, vector_db') = CopiesIn(d, vector_db)]_vars

\* C9 witness: a block presented other fields for a stored url and was
\* skipped.
StaleKept == ret.did = "skipped" /\ ret.differs /\ pc = "return"

\* C10 as stated: contents grows only by an article this call newly
\* stored.
AppendOnlyNewlyStored ==
    [][Len(contents') > Len(contents) => ret'.did = "stored"]_vars

\* C10 (as amended): every entry of the page's contents, of the run's
\* articles and of the snapshot has content and a url the collection holds,
\* stored by this run or found there.
EntriesAreStored ==
    \A i \in 1..Len(Entries) :
        /\ Truthy(Entries[i].content)
        /\ AlreadyExists(vector_db, Entries[i].content_url)

\* C10 witness: the snapshot holds an article this run did not store.
DuplicateInSnapshot ==
    /\ json_file.state = "written"
    /\ \E i \in 1..Len(json_file.data) :
          json_file.data[i].content_url \notin added

\* C11: nothing in store_in_vector_db stands between the lookup and the
\* write: a writer that is past a lookup that found nothing adds its document
\* whatever the other writer has stored meanwhile, so when both are past the
\* lookup for the same new url the collection ends with two entries for it.
CheckThenStoreRace ==
    [][\A w \in Writers :
          (writers[w].pc = "checked" /\ writers'[w] # writers[w])
              => EntriesFor(vector_db', writers[w].art.content_url)
                   = EntriesFor(vector_db, writers[w].art.content_url) + 1]_vars

\* Each writer made one call, both found nothing and both wrote.
TwoEntriesForUrl ==
    /\ \E u \in Urls : EntriesFor(vector_db, u) = 2
    /\ BagCardinality(vector_db) = 2
    /\ \A w \in Writers : writers[w] = [pc |-> "idle", art |-> NoCard,
                                        calls |-> 1]

\* C12: a run that passed the gate attempts the snapshot write exactly once,
\* after its last listing fetch; whether the write succeeds or fails, the
\* step leaves the collection as it was, fetches and commits nothing, and
\* goes on to the query loop, and nothing is fetched or stored afterwards.
SaveStep ==
    pc = "save" => /\ pc' = "query"
                   /\ saves' = 1
                   /\ vector_db' = vector_db
                   /\ fetched' = fetched
                   /\ art_got' = art_got
                   /\ added' = added

AfterSave ==
    (saves = 1 /\ run' = run) => /\ pc' \in {"query", "done"}
                                 /\ saves' = 1
                                 /\ vector_db' = vector_db
                                 /\ fetched' = fetched
                                 /\ art_got' = art_got
                                 /\ added' = added

SavedOnce ==
    /\ saves = (IF pc \in {"query", "done"} THEN 1 ELSE 0)
    /\ pc \in {"save", "query", "done"} => allowed = "allowed"

SnapshotFailureContained ==
    /\ []SavedOnce
    /\ [][SaveStep /\ AfterSave]_vars

\* The write failed in a run that had stored articles, and the run reached
\* the end of the query loop.
SaveFailedRunDone ==
    /\ pc = "done"
    /\ saves = 1
    /\ json_file.state # "written"
    /\ added # {}
    /\ articles # <<>>

\* C13 as stated: the walk moves from page p to page p+1 only if a block of
\* page p was newly stored on that page.
AdvanceOnlyIfStored ==
    [][current_page' = current_page + 1 => page_log.stored]_vars

\* C13 (as amended): the walk moves from page p to page p+1 only if the
\* page's result set is not empty, that is only if a block of page p had a
\* url and article content, newly stored or not.
AdvanceOnlyIfContent ==
    [][current_page' = current_page + 1
          => /\ contents # <<>>
             /\ page_log.linked
             /\ page_log.content
             /\ \A i \in 1..Len(contents) : Truthy(contents[i].content)]_vars

\* The walk has left page 1 in a run that stored nothing.
AdvancedWithoutStoring ==
    /\ pc = "sleep"
    /\ current_page = 2
    /\ articles # <<>>
    /\ added = {}

\* C14 as stated: an article request that gives no content costs only that
\* block (nothing is stored or appended for it and the next block of the
\* page, if any, is processed), and a page ends the walk only when none of
\* its blocks had a url.
ArticleMissOnlyDropsBlock ==
    (pc = "commit" /\ cur.content_url # None /\ ~Truthy(cur.content))
        => /\ vector_db' = vector_db
           /\ contents' = contents
           /\ pc' = IF i_block = n_blocks THEN "return" ELSE "card"

DrainedOnlyWithoutCandidates ==
    drained' # drained => ~page_log.linked

ArticleErrorIsolation ==
    [][ArticleMissOnlyDropsBlock /\ DrainedOnlyWithoutCandidates]_vars

\* The failing input: the only block of page 1 has a url and its article
\* request raises; the walk stops there.
StoppedByArticleError ==
    /\ site = LongSite
    /\ pc = "save"
    /\ drained = {1}
    /\ art_got
    /\ vector_db = EmptyBag

\* C15 as stated: each field extracted from a block depends on its own
\* element alone (the title on the title element, the date on the date
\* element, the url on the anchor), for every block of the page and every
\* combination of present and absent elements, and every block is extracted.
FieldsOf(b) ==
    [title |-> b.title_tag,
     publication_date |-> b.date_tag,
     content_url |-> IF b.href = None THEN None ELSE BASE_URL \o b.href]

IndependentFields ==
    /\ Len(extracted) <= Len(blocks)
    /\ \A i \in 1..Len(extracted) : extracted[i] = FieldsOf(blocks[i])
    /\ Len(extracted) < Len(blocks) => ENABLED ExtractBlock

\* What does hold: the title and the date are independent of the other
\* elements, and a missing date costs neither the title nor the url.
TitleAndDateIndependent ==
    \A i \in 1..Len(extracted) :
        /\ extracted[i].title = blocks[i].title_tag
        /\ extracted[i].publication_date = blocks[i].date_tag
        /\ blocks[i].title_tag # None
             => extracted[i].content_url = FieldsOf(blocks[i]).content_url

\* The failing input: a block with an anchor and no title element.
LinkWithoutTitle ==
    \E i \in 1..Len(extracted) :
        /\ blocks[i].title_tag = None
        /\ blocks[i].href # None
        /\ extracted[i].content_url = None

\* C16: the list built for one listing page never holds two entries with
\* the same content_url, whatever blocks the page has, and an entry once
\* appended stays where it is: of blocks with the same link the first one
\* with content is the one kept.
NoRepeatedUrl ==
    \A i, j \in 1..Len(contents) :
        contents[i].content_url = contents[j].content_url => i = j

FirstKept ==
    (pc = "commit" /\ contents' # <<>>)
        => /\ Len(contents') >= Len(contents)
           /\ SubSeq(contents', 1, Len(contents)) = contents

InPageGuard == []NoRepeatedUrl /\ [][FirstKept]_vars

\* In a first run, the second block of the page repeated the link of the
\* first with other fields and the page's list holds the first alone.
RepeatedLinkDropped ==
    /\ run = 1
    /\ pc = "return"
    /\ i_block = 2
    /\ Len(contents) = 1
    /\ ret.did = "skipped"
    /\ ret.differs
    /\ BagToSet(vector_db) = {Doc(contents[1])}

\* C17: robots.txt is requested at most twice in a run, first with
\* verification and a second time, without it, only after the first raised
\* an SSLError; no listing or article request is made with verification
\* off; no listing page is requested twice in a run.
PolicyFetches ==
    /\ robots_verify \in {<<>>, <<TRUE>>, <<TRUE, FALSE>>}
    /\ ~verify_off
    /\ \A i, j \in 1..Len(fetched) : fetched[i] = fetched[j] => i = j

RetryOnlyAfterSslError ==
    Len(robots_verify') > Len(robots_verify)
        => IF robots_verify = <<>>
           THEN pc = "gate" /\ robots_verify' = <<TRUE>>
           ELSE /\ robots_last = "ssl_error"
                /\ robots_verify' = <<TRUE, FALSE>>

TrustDowngradeConfined == []PolicyFetches /\ [][RetryOnlyAfterSslError]_vars

\* A run whose gate fell back to the unverified request went on to request
\* a listing page and an article.
DowngradedRunFetched ==
    /\ robots_verify = <<TRUE, FALSE>>
    /\ allowed = "allowed"
    /\ fetched # <<>>
    /\ art_got
    /\ pc = "done"

\* C18: between two consecutive listing requests of a run a sleep has
\* returned: when the (n+1)-th listing page is requested, n sleeps of the
\* run have completed, one after each earlier page.
PausesSoFar == pauses <= Len(fetched)

FetchAfterPause ==
    Len(fetched') > Len(fetched) => pauses = Len(fetched)

PauseBetweenFetches == []PausesSoFar /\ [][FetchAfterPause]_vars

\* Page 3 has been requested, after two pauses.
ThirdPageAfterTwoPauses ==
    /\ fetched = <<1, 2, 3>>
    /\ pauses = 2
    /\ pc = "card"

\* C19 as stated: at the end of a run whose snapshot was written, every url
\* newly stored in the collection during the run is the content_url of an
\* entry of the snapshot.
SnapshotUrls == {json_file.data[i].content_url : i \in 1..Len(json_file.data)}

SnapshotComplete ==
    (pc \in {"query", "done"} /\ json_file.state = "written")
        => added \subseteq SnapshotUrls

\* The failing input: the first block of the page was stored, the store
\* call raised for a later block, and the snapshot was written without
\* the first.
StoredButNotInSnapshot ==
    /\ pc = "done"
    /\ run = 1
    /\ json_file = [state |-> "written", data |-> <<>>]
    /\ fetched = <<1>>
    /\ added = {urljoin(BASE_URL, "/a")}
    /\ BagCardinality(vector_db) = 1

=============================================================================
